---- MODULE Spec2Model ----
(***************************************************************************)
(* HMMM-Rust: the instruction table, the text<->binary instruction codec   *)
(* (Instruction::new_from_text, Instruction::new_from_binary) and the      *)
(* compile / decode runs of main (compile_hmmm, read_compiled_hmmm, the    *)
(* output writers), modelled from src/src/main.rs.                         *)
(*                                                                         *)
(* A Rust String is a sequence of lexical pieces.  A piece is one          *)
(* character (a separator, a letter, '#'), one binary-digit character, a   *)
(* decimal numeral as format!("{}", v) prints it, or a lowercase word.     *)
(* A panic (unwrap on None/Err, index out of bounds, panic!) is the        *)
(* outcome Panic: it unwinds and ends the process.                         *)
(***************************************************************************)
EXTENDS Integers, Sequences, FiniteSets, TLC

----------------------------------------------------------------------------
(* Strings                                                                 *)

CH(c) == [t |-> "ch", s |-> c, n |-> 0]
BIT(b) == [t |-> "bit", s |-> "", n |-> b]
NUM(v) == [t |-> "num", s |-> "", n |-> v]
W(w) == [t |-> "word", s |-> w, n |-> 0]

SP == CH(" ")
TAB == CH("\t")
COMMA == CH(",")
HASH == CH("#")

Whitespace == {SP, TAB}

RECURSIVE DecDigits(_)
DecDigits(v) == IF v < 10 THEN 1 ELSE 1 + DecDigits(v \div 10)

\* the words of the model and their byte lengths
WordLen(w) ==
    CASE w \in {"add", "neg", "sub", "mul", "div", "mod", "nop"} -> 3
      [] w \in {"halt", "read", "setn", "popr", "addn", "copy", "data"} -> 4
      [] w \in {"storen", "storer"} -> 6
      [] OTHER -> 5

\* str::len of one piece, in bytes
PieceLen(p) ==
    CASE p.t = "num" -> IF p.n < 0 THEN 1 + DecDigits(-p.n) ELSE DecDigits(p.n)
      [] p.t = "word" -> WordLen(p.s)
      [] OTHER -> 1

RECURSIVE len(_)
len(s) == IF s = <<>> THEN 0 ELSE PieceLen(Head(s)) + len(Tail(s))

\* str::split on a set of separator characters: n separators give n+1 parts
split(s, seps) ==
    LET at == {i \in 1..Len(s) : s[i] \in seps}
        n == Cardinality(at)
        pos(k) == IF k = 0 THEN 0
                  ELSE IF k = n + 1 THEN Len(s) + 1
                  ELSE CHOOSE p \in at : Cardinality({q \in at : q < p}) = k - 1
    IN  [k \in 1..(n + 1) |-> SubSeq(s, pos(k - 1) + 1, pos(k) - 1)]

\* [String]::join
RECURSIVE join(_, _)
join(parts, sep) ==
    IF parts = <<>> THEN <<>>
    ELSE IF Len(parts) = 1 THEN parts[1]
    ELSE parts[1] \o sep \o join(Tail(parts), sep)

RECURSIVE trim_start(_)
trim_start(s) ==
    IF s # <<>> /\ Head(s) \in Whitespace THEN trim_start(Tail(s)) ELSE s

RECURSIVE trim_end(_)
trim_end(s) ==
    IF s # <<>> /\ s[Len(s)] \in Whitespace
    THEN trim_end(SubSeq(s, 1, Len(s) - 1)) ELSE s

trim(s) == trim_end(trim_start(s))

\* str::split_whitespace: the non-empty parts between whitespace
split_whitespace(s) == SelectSeq(split(s, Whitespace), LAMBDA p : p # <<>>)

\* str::starts_with for a one-character pattern; the words of the model are
\* mnemonics, used in mnemonic position only, and none starts with '#'
starts_with(s, c) == s # <<>> /\ s[1] = CH(c)

\* str::to_lowercase: the model's only uppercase character is 'R'
to_lowercase(s) == [i \in 1..Len(s) |-> IF s[i] = CH("R") THEN CH("r") ELSE s[i]]

\* str::get(a..b) on a string of one-byte pieces, a and b 0-based: None when
\* the range runs past the end
get(s, a, b) ==
    IF b <= Len(s) THEN [some |-> TRUE, v |-> SubSeq(s, a + 1, b)]
    ELSE [some |-> FALSE, v |-> <<>>]

----------------------------------------------------------------------------
(* Number parsing and formatting                                           *)

ParseOk(v) == [ok |-> TRUE, v |-> v]
ParseErr == [ok |-> FALSE, v |-> 0]

Pow2(k) == 2 ^ k

\* str::parse::<T>() for an integer type with range lo..hi: a decimal numeral
parse(s, lo, hi) ==
    IF Len(s) = 1 /\ s[1].t = "num" /\ lo <= s[1].n /\ s[1].n <= hi
    THEN ParseOk(s[1].n) ELSE ParseErr

RECURSIVE HexOfDecimalDigits(_)
HexOfDecimalDigits(v) ==
    IF v < 10 THEN v ELSE 16 * HexOfDecimalDigits(v \div 10) + (v % 10)

RECURSIVE BinValue(_)
BinValue(s) ==
    IF s = <<>> THEN 0 ELSE 2 * BinValue(SubSeq(s, 1, Len(s) - 1)) + s[Len(s)].n

\* T::from_str_radix(s, radix) for a type with range lo..hi.  Radix 2 reads
\* binary-digit characters; radix 16 reads the digits of a decimal numeral as
\* hexadecimal digits.  The value is taken as written (no two's complement).
from_str_radix(s, radix, lo, hi) ==
    IF radix = 2
    THEN IF s # <<>> /\ (\A i \in 1..Len(s) : s[i].t = "bit" /\ s[i].n \in {0, 1})
              /\ BinValue(s) <= hi
         THEN ParseOk(BinValue(s)) ELSE ParseErr
    ELSE IF Len(s) = 1 /\ s[1].t = "num"
         THEN LET v == IF s[1].n < 0 THEN -HexOfDecimalDigits(-s[1].n)
                       ELSE HexOfDecimalDigits(s[1].n)
              IN  IF lo <= v /\ v <= hi THEN ParseOk(v) ELSE ParseErr
         ELSE ParseErr

RECURSIVE ToBin(_)
ToBin(v) == IF v < 2 THEN <<BIT(v)>> ELSE ToBin(v \div 2) \o <<BIT(v % 2)>>

\* format!("{:0w$b}", v) for an integer of `bits` bits: the two's complement
\* bit pattern, zero-padded on the left to at least w characters
format_b(v, w, bits) ==
    LET Pad(d, k) == IF Len(d) >= k THEN d
                     ELSE [i \in 1..(k - Len(d)) |-> BIT(0)] \o d
    IN  IF v < 0
        THEN <<BIT(1)>> \o Pad(ToBin(v + Pow2(bits - 2) + Pow2(bits - 2)), bits - 1)
        ELSE Pad(ToBin(v), w)

\* format!("{}", v)
format_d(v) == <<NUM(v)>>

----------------------------------------------------------------------------
(* The instruction table                                                   *)

\* a string literal of four nibbles separated by single spaces
Str4(a, b, c, d) ==
    LET N(x) == [i \in 1..4 |-> BIT(x[i])]
    IN  N(a) \o <<SP>> \o N(b) \o <<SP>> \o N(c) \o <<SP>> \o N(d)

InstructionType_new(names, match_string, mask_string, arguments) ==
    [names |-> names, match_string |-> match_string,
     mask_string |-> mask_string, arguments |-> arguments]

\* names: the mnemonics, names[1] canonical; arguments: one character per
\* operand: "r" register, "s" signed 8-bit, "u" unsigned 8-bit, "n" 16-bit
\* number, "z" skip 4 bits of 0s
INSTRUCTION_LOOKUP == <<
    InstructionType_new(<<"halt">>,
        Str4(<<0,0,0,0>>, <<0,0,0,0>>, <<0,0,0,0>>, <<0,0,0,0>>),
        Str4(<<1,1,1,1>>, <<1,1,1,1>>, <<1,1,1,1>>, <<1,1,1,1>>),
        <<>>),
    InstructionType_new(<<"read">>,
        Str4(<<0,0,0,0>>, <<0,0,0,0>>, <<0,0,0,0>>, <<0,0,0,1>>),
        Str4(<<1,1,1,1>>, <<0,0,0,0>>, <<1,1,1,1>>, <<1,1,1,1>>),
        <<"r">>),
    InstructionType_new(<<"write">>,
        Str4(<<0,0,0,0>>, <<0,0,0,0>>, <<0,0,0,0>>, <<0,0,1,0>>),
        Str4(<<1,1,1,1>>, <<0,0,0,0>>, <<1,1,1,1>>, <<1,1,1,1>>),
        <<"r">>),
    InstructionType_new(<<"jumpr">>,
        Str4(<<0,0,0,0>>, <<0,0,0,0>>, <<0,0,0,0>>, <<0,0,1,1>>),
        Str4(<<1,1,1,1>>, <<0,0,0,0>>, <<1,1,1,1>>, <<1,1,1,1>>),
        <<"r">>),
    InstructionType_new(<<"setn">>,
        Str4(<<0,0,0,1>>, <<0,0,0,0>>, <<0,0,0,0>>, <<0,0,0,0>>),
        Str4(<<1,1,1,1>>, <<0,0,0,0>>, <<0,0,0,0>>, <<0,0,0,0>>),
        <<"r", "s">>),
    InstructionType_new(<<"loadn">>,
        Str4(<<0,0,1,0>>, <<0,0,0,0>>, <<0,0,0,0>>, <<0,0,0,0>>),
        Str4(<<1,1,1,1>>, <<0,0,0,0>>, <<0,0,0,0>>, <<0,0,0,0>>),
        <<"r", "u">>),
    InstructionType_new(<<"storen">>,
        Str4(<<0,0,1,1>>, <<0,0,0,0>>, <<0,0,0,0>>, <<0,0,0,0>>),
        Str4(<<1,1,1,1>>, <<0,0,0,0>>, <<0,0,0,0>>, <<0,0,0,0>>),
        <<"r", "u">>),
    InstructionType_new(<<"loadr">>,
        Str4(<<0,1,0,0>>, <<0,0,0,0>>, <<0,0,0,0>>, <<0,0,0,0>>),
        Str4(<<1,1,1,1>>, <<0,0,0,0>>, <<0,0,0,0>>, <<0,0,0,0>>),
        <<>>),
    InstructionType_new(<<"storer">>,
        Str4(<<0,1,0,0>>, <<0,0,0,0>>, <<0,0,0,0>>, <<0,0,0,1>>),
        Str4(<<1,1,1,1>>, <<0,0,0,0>>, <<0,0,0,0>>, <<0,0,0,0>>),
        <<"r", "r">>),
    InstructionType_new(<<"popr">>,
        Str4(<<0,1,0,0>>, <<0,0,0,0>>, <<0,0,0,0>>, <<0,0,1,0>>),
        Str4(<<1,1,1,1>>, <<0,0,0,0>>, <<0,0,0,0>>, <<1,1,1,1>>),
        <<"r", "r">>),
    InstructionType_new(<<"pushr">>,
        Str4(<<0,1,0,0>>, <<0,0,0,0>>, <<0,0,0,0>>, <<0,0,1,1>>),
        Str4(<<1,1,1,1>>, <<0,0,0,0>>, <<0,0,0,0>>, <<1,1,1,1>>),
        <<"r", "r">>),
    InstructionType_new(<<"addn">>,
        Str4(<<0,1,0,1>>, <<0,0,0,0>>, <<0,0,0,0>>, <<0,0,0,0>>),
        Str4(<<1,1,1,1>>, <<0,0,0,0>>, <<0,0,0,0>>, <<0,0,0,0>>),
        <<"r", "s">>),
    InstructionType_new(<<"nop">>,
        Str4(<<0,1,1,0>>, <<0,0,0,0>>, <<0,0,0,0>>, <<0,0,0,0>>),
        Str4(<<1,1,1,1>>, <<1,1,1,1>>, <<1,1,1,1>>, <<1,1,1,1>>),
        <<>>),
    InstructionType_new(<<"copy">>,
        Str4(<<0,1,1,0>>, <<0,0,0,0>>, <<0,0,0,0>>, <<0,0,0,0>>),
        Str4(<<1,1,1,1>>, <<0,0,0,0>>, <<0,0,0,0>>, <<1,1,1,1>>),
        <<"r", "r">>),
    InstructionType_new(<<"add">>,
        Str4(<<0,1,1,0>>, <<0,0,0,0>>, <<0,0,0,0>>, <<0,0,0,0>>),
        Str4(<<1,1,1,1>>, <<0,0,0,0>>, <<0,0,0,0>>, <<0,0,0,0>>),
        <<"r", "r", "r">>),
    InstructionType_new(<<"neg">>,
        Str4(<<0,1,1,1>>, <<0,0,0,0>>, <<0,0,0,0>>, <<0,0,0,0>>),
        Str4(<<1,1,1,1>>, <<0,0,0,0>>, <<1,1,1,1>>, <<0,0,0,0>>),
        <<"r", "z", "r">>),
    InstructionType_new(<<"sub">>,
        Str4(<<0,1,1,1>>, <<0,0,0,0>>, <<0,0,0,0>>, <<0,0,0,0>>),
        Str4(<<1,1,1,1>>, <<0,0,0,0>>, <<0,0,0,0>>, <<0,0,0,0>>),
        <<"r", "r", "r">>),
    InstructionType_new(<<"mul">>,
        Str4(<<1,0,0,0>>, <<0,0,0,0>>, <<0,0,0,0>>, <<0,0,0,0>>),
        Str4(<<1,1,1,1>>, <<0,0,0,0>>, <<0,0,0,0>>, <<0,0,0,0>>),
        <<"r", "r", "r">>),
    InstructionType_new(<<"div">>,
        Str4(<<1,0,0,1>>, <<0,0,0,0>>, <<0,0,0,0>>, <<0,0,0,0>>),
        Str4(<<1,1,1,1>>, <<0,0,0,0>>, <<0,0,0,0>>, <<0,0,0,0>>),
        <<"r", "r", "r">>),
    InstructionType_new(<<"mod">>,
        Str4(<<1,0,1,0>>, <<0,0,0,0>>, <<0,0,0,0>>, <<0,0,0,0>>),
        Str4(<<1,1,1,1>>, <<0,0,0,0>>, <<0,0,0,0>>, <<0,0,0,0>>),
        <<"r", "r", "r">>),
    InstructionType_new(<<"jumpn">>,
        Str4(<<1,0,1,1>>, <<0,0,0,0>>, <<0,0,0,0>>, <<0,0,0,0>>),
        Str4(<<1,1,1,1>>, <<1,1,1,1>>, <<0,0,0,0>>, <<0,0,0,0>>),
        <<"z", "u">>),
    InstructionType_new(<<"calln">>,
        Str4(<<1,0,1,1>>, <<0,0,0,0>>, <<0,0,0,0>>, <<0,0,0,0>>),
        Str4(<<1,1,1,1>>, <<0,0,0,0>>, <<0,0,0,0>>, <<0,0,0,0>>),
        <<"r", "u">>),
    InstructionType_new(<<"jeqzn">>,
        Str4(<<1,1,0,0>>, <<0,0,0,0>>, <<0,0,0,0>>, <<0,0,0,0>>),
        Str4(<<1,1,1,1>>, <<0,0,0,0>>, <<0,0,0,0>>, <<0,0,0,0>>),
        <<"r", "u">>),
    InstructionType_new(<<"jnezn">>,
        Str4(<<1,1,0,1>>, <<0,0,0,0>>, <<0,0,0,0>>, <<0,0,0,0>>),
        Str4(<<1,1,1,1>>, <<0,0,0,0>>, <<0,0,0,0>>, <<0,0,0,0>>),
        <<"r", "u">>),
    InstructionType_new(<<"jgtzn">>,
        Str4(<<1,1,1,0>>, <<0,0,0,0>>, <<0,0,0,0>>, <<0,0,0,0>>),
        Str4(<<1,1,1,1>>, <<0,0,0,0>>, <<0,0,0,0>>, <<0,0,0,0>>),
        <<"r", "u">>),
    InstructionType_new(<<"jltzn">>,
        Str4(<<1,1,1,1>>, <<0,0,0,0>>, <<0,0,0,0>>, <<0,0,0,0>>),
        Str4(<<1,1,1,1>>, <<0,0,0,0>>, <<0,0,0,0>>, <<0,0,0,0>>),
        <<"r", "u">>),
    InstructionType_new(<<"data">>,
        Str4(<<0,0,0,0>>, <<0,0,0,0>>, <<0,0,0,0>>, <<0,0,0,0>>),
        Str4(<<0,0,0,0>>, <<0,0,0,0>>, <<0,0,0,0>>, <<0,0,0,0>>),
        <<"n">>)
>>

ZeroNibble == <<BIT(0), BIT(0), BIT(0), BIT(0)>>

\* mask_string.split(" ").map(|a| a != "0000"): TRUE marks a significant nibble
mask_of(ty) ==
    LET m == split(ty.mask_string, {SP})
    IN  [i \in 1..Len(m) |-> m[i] # ZeroNibble]

\* match_string.split(" ")
matcher_of(ty) == split(ty.match_string, {SP})

\* the mask and the matcher of every entry, which the code computes anew at
\* each use from the same immutable table
masks == [i \in 1..Len(INSTRUCTION_LOOKUP) |-> mask_of(INSTRUCTION_LOOKUP[i])]
matchers == [i \in 1..Len(INSTRUCTION_LOOKUP) |-> matcher_of(INSTRUCTION_LOOKUP[i])]
names_of == [i \in 1..Len(INSTRUCTION_LOOKUP) |-> INSTRUCTION_LOOKUP[i].names]
arguments_of == [i \in 1..Len(INSTRUCTION_LOOKUP) |-> INSTRUCTION_LOOKUP[i].arguments]

----------------------------------------------------------------------------
(* Results: Result<Instruction, CompileErr>, or a panic                    *)

\* instruction_type is the index of the table entry the Instruction holds a
\* clone of (the entries are pairwise different values)
Ok(ty, text_contents, binary_contents) ==
    [tag |-> "Ok", err |-> "", instruction_type |-> ty,
     text_contents |-> text_contents, binary_contents |-> binary_contents]

Err(e) ==
    [tag |-> "Err", err |-> e, instruction_type |-> 0,
     text_contents |-> <<>>, binary_contents |-> <<>>]

Panic ==
    [tag |-> "Panic", err |-> "", instruction_type |-> 0,
     text_contents |-> <<>>, binary_contents |-> <<>>]

CompileErr ==
    {"InstructionDoesNotExist", "InvalidArgumentType", "InvalidRegister",
     "TooManyArguments", "TooFewArguments", "InvalidSignedNumber",
     "InvalidUnsignedNumber", "InvalidNumber", "CorruptedBinary",
     "LineNumberNotPresent", "InvalidLineNumber"}

----------------------------------------------------------------------------
(* Instruction::new_from_text                                              *)

\* for instruction in INSTRUCTION_LOOKUP { if names.contains(tok) { break } }:
\* the index of the first entry one of whose names is tok, 0 for None
RECURSIVE lookup_by_name(_, _)
lookup_by_name(i, tok) ==
    IF i > Len(INSTRUCTION_LOOKUP) THEN 0
    ELSE IF \E k \in 1..Len(names_of[i]) : tok = <<W(names_of[i][k])>>
         THEN i
         ELSE lookup_by_name(i + 1, tok)

\* text_contents: the operand tokens joined by " " when there are two of
\* them and by ", " otherwise
RECURSIVE text_loop(_, _, _)
text_loop(text_contents, instruction_args, i) ==
    IF i >= Len(instruction_args) - 1 THEN text_contents
    ELSE text_loop(text_contents \o <<COMMA, SP>> \o instruction_args[2 + i],
                   instruction_args, i + 1)

text_of_args(instruction_args) ==
    IF Len(instruction_args) = 2
    THEN instruction_args[1] \o <<SP>> \o instruction_args[2]
    ELSE text_loop(instruction_args[1], instruction_args, 0)

BinOk(s) == [tag |-> "Ok", err |-> "", s |-> s]
BinErr(e) == [tag |-> "Err", err |-> e, s |-> <<>>]

\* the ranges of u8, i8 and i32
U8Max == Pow2(8) - 1
I8Min == -Pow2(7)
I8Max == Pow2(7) - 1
I32Max == (Pow2(30) - 1) * 2 + 1
I32Min == -I32Max - 1

\* the register operand: "r" or "R", then the number parsed as a u8 and
\* printed with format!("{:04b}")
register_binary(arg) ==
    IF starts_with(to_lowercase(arg), "r")
    THEN LET register_number == parse(Tail(arg), 0, U8Max)
         IN  IF ~register_number.ok THEN BinErr("InvalidRegister")
             ELSE BinOk(format_b(register_number.v, 4, 8))
    ELSE BinErr("InvalidArgumentType")

\* the 16-bit number operand: hexadecimal first, then decimal
number_binary(number_hex, number_dec) ==
    IF number_hex.ok THEN BinOk(format_b(number_hex.v, 16, 32))
    ELSE IF number_dec.ok THEN BinOk(format_b(number_dec.v, 16, 32))
    ELSE BinErr("InvalidNumber")

\* the signed and the unsigned 8-bit operand
byte_binary(number, error) ==
    IF ~number.ok THEN BinErr(error) ELSE BinOk(format_b(number.v, 8, 8))

\* binary_string of one operand of kind current_instruction_type
operand_binary(current_instruction_type, arg) ==
    CASE current_instruction_type = "r" -> register_binary(arg)
      [] current_instruction_type = "s" ->
            byte_binary(parse(arg, I8Min, I8Max), "InvalidSignedNumber")
      [] current_instruction_type = "u" ->
            byte_binary(parse(arg, 0, U8Max), "InvalidUnsignedNumber")
      [] current_instruction_type = "n" ->
            number_binary(from_str_radix(arg, 16, I32Min, I32Max),
                          parse(arg, I32Min, I32Max))
      [] current_instruction_type = "z" -> BinOk(ZeroNibble)
      [] OTHER -> BinOk(<<>>)

\* the slot writes that end one pass of the operand loop: one nibble for a
\* 4-character string, two for an 8-character string, three otherwise.
\* [panic |-> TRUE] when a get(..).unwrap() or a Vec index fails.
write_slots(binary_contents, slot_to_fill, binary_string) ==
    LET Done(b) == [panic |-> FALSE, b |-> b]
        Fail == [panic |-> TRUE, b |-> binary_contents]
        n == Len(binary_contents)
        g1 == get(binary_string, 0, 4)
        g2 == get(binary_string, 4, 8)
        g3 == get(binary_string, 8, 12)
    IN  IF Len(binary_string) = 4
        THEN Done([binary_contents EXCEPT ![slot_to_fill] = binary_string])
        ELSE IF Len(binary_string) = 8
        THEN IF slot_to_fill + 1 > n THEN Fail
             ELSE Done([binary_contents EXCEPT ![slot_to_fill] = g1.v,
                                               ![slot_to_fill + 1] = g2.v])
        ELSE IF ~g1.some \/ ~g2.some \/ ~g3.some \/ slot_to_fill + 2 > n
             THEN Fail
             ELSE Done([binary_contents EXCEPT ![slot_to_fill] = g1.v,
                                               ![slot_to_fill + 1] = g2.v,
                                               ![slot_to_fill + 2] = g3.v])

\* filled_slots.iter().position(|a| *a == false): 0 for None
first_free(filled_slots) ==
    IF \A i \in 1..Len(filled_slots) : filled_slots[i] THEN 0
    ELSE CHOOSE i \in 1..Len(filled_slots) :
             ~filled_slots[i] /\ \A j \in 1..(i - 1) : filled_slots[j]

\* for (index, arg) in instruction_args.iter().enumerate(): slot_to_fill is
\* the first slot not yet marked filled, and only that slot is marked
RECURSIVE operand_loop(_, _, _, _, _, _)
RECURSIVE operand_pass(_, _, _, _, _, _, _, _)
operand_loop(ty, arguments, instruction_args, index, filled_slots, binary_contents) ==
    IF index > Len(instruction_args)
    THEN Ok(ty, text_of_args(instruction_args), binary_contents)
    ELSE operand_pass(ty, arguments, instruction_args, index, filled_slots,
                      binary_contents, first_free(filled_slots),
                      operand_binary(arguments[index], instruction_args[index]))

\* one pass of the loop, slot_to_fill and binary_string known
operand_pass(ty, arguments, instruction_args, index, filled_slots, binary_contents, slot_to_fill, bin) ==
    IF slot_to_fill = 0 THEN Panic
    ELSE IF bin.tag = "Err" THEN Err(bin.err)
    ELSE IF write_slots(binary_contents, slot_to_fill, bin.s).panic THEN Panic
    ELSE operand_loop(ty, arguments, instruction_args, index + 1,
                      [filled_slots EXCEPT ![slot_to_fill] = TRUE],
                      write_slots(binary_contents, slot_to_fill, bin.s).b)

\* the rest of new_from_text once the entry is found
text_with_type(ty, arguments, instruction_args) ==
    IF Len(instruction_args) > Len(arguments)
    THEN Err("TooManyArguments")
    ELSE IF Len(instruction_args) < Len(arguments)
    THEN Err("TooFewArguments")
    ELSE IF Len(arguments) = 0
    THEN Ok(ty, <<W(names_of[ty][1])>>, matchers[ty])
    ELSE operand_loop(ty, arguments, instruction_args, 1, masks[ty],
                      matchers[ty])

text_lookup(ty, contents_list) ==
    IF ty = 0 THEN Err("InstructionDoesNotExist")
    ELSE text_with_type(ty, arguments_of[ty], Tail(contents_list))

text_split(contents_list) ==
    text_lookup(lookup_by_name(1, contents_list[1]), contents_list)

new_from_text(line_contents) == text_split(split(line_contents, {SP}))

----------------------------------------------------------------------------
(* Instruction::new_from_binary                                            *)

\* for i in 0..4 { if mask[i] { if matcher[i] != line_split[i] {..} } }: the
\* loop does not stop at a mismatch; "panic" when line_split has no token i
RECURSIVE match_loop(_, _, _, _, _)
match_loop(i, matcher, mask, line_split, matches_instruction) ==
    IF i > 4 THEN IF matches_instruction THEN "match" ELSE "no"
    ELSE IF mask[i]
    THEN IF i > Len(line_split) THEN "panic"
         ELSE match_loop(i + 1, matcher, mask, line_split,
                         matches_instruction /\ matcher[i] = line_split[i])
    ELSE match_loop(i + 1, matcher, mask, line_split, matches_instruction)

\* for instruction in INSTRUCTION_LOOKUP { .. if matches_instruction { break } }:
\* the index of the first matching entry, 0 for None, -1 for a panic
RECURSIVE lookup_by_pattern(_, _)
RECURSIVE lookup_step(_, _, _)
\* the loop without its break: a later matching entry replaces an earlier one
last_match(i, m, later) ==
    IF later # 0 THEN later ELSE IF m = "match" THEN i ELSE 0

lookup_step_no_break(i, line_split, m) ==
    IF m = "panic" THEN -1
    ELSE last_match(i, m, lookup_by_pattern(i + 1, line_split))

lookup_by_pattern(i, line_split) ==
    IF i > Len(INSTRUCTION_LOOKUP) THEN 0
    ELSE lookup_step(i, line_split,
                     match_loop(1, matchers[i], masks[i], line_split, TRUE))

lookup_step(i, line_split, m) ==
    IF m = "panic" THEN -1
    ELSE IF m = "match" THEN i
    ELSE lookup_by_pattern(i + 1, line_split)

\* binary_contents[i] for a 0-based i
At(binary_contents, i) ==
    IF i + 1 <= Len(binary_contents)
    THEN [some |-> TRUE, v |-> binary_contents[i + 1]]
    ELSE [some |-> FALSE, v |-> <<>>]

\* for arg_type in arguments.chars(): the operand texts, read from slot 1 on;
\* a "z" reads nothing and does not move slots_filled.  [panic |-> TRUE] when
\* an index or a from_str_radix(..).unwrap() fails.
RECURSIVE decode_loop(_, _, _, _, _)
RECURSIVE decode_pass(_, _, _, _, _, _, _)
decode_loop(arguments, k, binary_contents, slots_filled, instruction_args) ==
    IF k > Len(arguments) THEN [panic |-> FALSE, args |-> instruction_args]
    ELSE decode_pass(arguments, k, binary_contents, slots_filled,
                     instruction_args,
                     At(binary_contents, slots_filled),
                     At(binary_contents, slots_filled + 1))

\* one pass of the loop: a and b are the slot at slots_filled and the next
decode_pass(arguments, k, binary_contents, slots_filled, instruction_args, a, b) ==
    LET Fail == [panic |-> TRUE, args |-> <<>>]
        Go(ok, width, text) ==
            IF ~ok THEN Fail
            ELSE decode_loop(arguments, k + 1, binary_contents,
                             slots_filled + width,
                             Append(instruction_args, text))
        register == from_str_radix(a.v, 2, 0, U8Max)
        signed == from_str_radix(a.v \o b.v, 2, I8Min, I8Max)
        unsigned == from_str_radix(a.v \o b.v, 2, 0, U8Max)
        number == from_str_radix(a.v \o b.v, 2, I32Min, I32Max)
    IN  CASE arguments[k] = "r" ->
                Go(a.some /\ register.ok, 1, <<CH("r")>> \o format_d(register.v))
          [] arguments[k] = "s" ->
                Go(a.some /\ b.some /\ signed.ok, 2, format_d(signed.v))
          [] arguments[k] = "u" ->
                Go(a.some /\ b.some /\ unsigned.ok, 2, format_d(unsigned.v))
          [] arguments[k] = "n" ->
                Go(a.some /\ b.some /\ number.ok, 3, format_d(number.v))
          [] OTHER ->
                decode_loop(arguments, k + 1, binary_contents, slots_filled,
                            instruction_args)

\* text_contents: the operand texts joined by ", ", "" when there are none
decoded_text(instruction_args) ==
    IF instruction_args = <<>> THEN <<>>
    ELSE join(instruction_args, <<COMMA, SP>>)

binary_decoded(ty, dec, binary_contents) ==
    IF dec.panic THEN Panic
    ELSE Ok(ty, decoded_text(dec.args), binary_contents)

binary_lookup(ty, binary_contents) ==
    IF ty = -1 THEN Panic
    ELSE IF ty = 0 THEN Err("InstructionDoesNotExist")
    ELSE binary_decoded(ty,
             decode_loop(arguments_of[ty], 1, binary_contents, 1, <<>>),
             binary_contents)

binary_split(line_split) ==
    binary_lookup(lookup_by_pattern(1, line_split), line_split)

new_from_binary(line_contents) == binary_split(split(line_contents, {SP}))

----------------------------------------------------------------------------
(* compile_hmmm, read_compiled_hmmm and the output writers                 *)

UNCOMPILED == ".hmmm"
COMPILED == ".hb"

\* what one pass of the loop of compile_hmmm comes to
Skipped == [kind |-> "skip", err |-> "", line_parts |-> <<>>, instr |-> Panic]
Pushed(instr) ==
    [kind |-> "push", err |-> "", line_parts |-> <<>>, instr |-> instr]
Raised(e, line_parts) ==
    [kind |-> "raise", err |-> e, line_parts |-> line_parts, instr |-> Panic]
Panicked == [kind |-> "panic", err |-> "", line_parts |-> <<>>, instr |-> Panic]

\* the index of the first part that starts with '#', 0 for None
comment_position(parts) ==
    IF \E i \in 1..Len(parts) : starts_with(parts[i], "#")
    THEN CHOOSE i \in 1..Len(parts) :
             starts_with(parts[i], "#")
             /\ \A j \in 1..(i - 1) : ~starts_with(parts[j], "#")
    ELSE 0

\* line_parts of a line: split on ',', ' ' and '\t', cut at the first part
\* that starts a comment, joined, trimmed and split on whitespace
line_parts_of(line) ==
    LET parts == split(line, {COMMA, SP, TAB})
        comment_part == comment_position(parts)
        kept == IF comment_part # 0 THEN SubSeq(parts, 1, comment_part - 1)
                ELSE parts
    IN  split_whitespace(trim(join(kept, <<SP>>)))

\* the line is skipped unless it is longer than 2 bytes and its trimmed text
\* does not start with '#'
is_processed(line) == ~starts_with(trim(line), "#") /\ len(line) > 2

\* the end of the loop body: the instruction is pushed or its error raised
compile_instruction(next_instruction, line_parts) ==
    IF next_instruction.tag = "Panic" THEN Panicked
    ELSE IF next_instruction.tag = "Err"
    THEN Raised(next_instruction.err, line_parts)
    ELSE Pushed(next_instruction)

\* the loop body once line_number and line_parts are known; cleaned_line is
\* line_parts[1..] joined and lowercased, a panic when line_parts is empty
compile_parts(line_number, line_parts, line_counter) ==
    IF line_parts = <<>> THEN Panicked
    ELSE IF ~line_number.ok THEN Raised("LineNumberNotPresent", line_parts)
    ELSE IF line_number.v # line_counter
    THEN Raised("InvalidLineNumber", line_parts)
    ELSE compile_instruction(
             new_from_text(to_lowercase(join(Tail(line_parts), <<SP>>))),
             line_parts)

\* the body of the loop of compile_hmmm for one line.  The label is parsed
\* as an i128; every numeral of the model lies within that range.
compile_line(line, line_counter) ==
    IF ~is_processed(line) THEN Skipped
    ELSE compile_parts(
             parse(trim(split(line, {COMMA, SP, TAB})[1]), I32Min, I32Max),
             line_parts_of(line), line_counter)

NoReport == [line_num |-> -1, error |-> ""]

\* raise_compile_error without its exit(1): the report is printed and the
\* call returns to the loop
raise_compile_error_returns(line_num, error, raw_line, line_parts) ==
    IF Len(line_parts) < 2
    THEN [status |-> "panicked", report |-> NoReport]
    ELSE [status |-> "running",
          report |-> [line_num |-> line_num, error |-> error]]

\* raise_compile_error: line_parts[2..] panics on fewer than two fields,
\* before anything is printed; otherwise the report is printed and the
\* process exits with status 1
raise_compile_error(line_num, error, raw_line, line_parts) ==
    IF Len(line_parts) < 2
    THEN [status |-> "panicked", report |-> NoReport]
    ELSE [status |-> "exited",
          report |-> [line_num |-> line_num, error |-> error]]

\* the body of the loop of read_compiled_hmmm for one line
read_line(line) ==
    LET next_instruction == new_from_binary(line)
    IN  IF next_instruction.tag = "Ok" THEN Pushed(next_instruction)
        ELSE Panicked

\* the lines of a file written from `contents` after contents.trim_end()
trimmed_file(file_lines) ==
    IF file_lines = <<>> THEN <<>>
    ELSE [file_lines EXCEPT ![Len(file_lines)] = trim_end(@)]

write_uncompiled_hmmm(compiled) ==
    trimmed_file([i \in 1..Len(compiled) |->
        format_d(i - 1) \o <<SP>>
        \o <<W(names_of[compiled[i].instruction_type][1])>>
        \o <<SP>> \o compiled[i].text_contents])

write_compiled_hmmm(compiled) ==
    trimmed_file([i \in 1..Len(compiled) |->
        join(compiled[i].binary_contents, <<SP>>)])

----------------------------------------------------------------------------
(* State                                                                   *)

VARIABLES
    pc,             \* codec: "start", "first", "second"; "idle" in a file run
    direction,      \* codec: "text" (encode first) or "binary" (decode first)
    line_contents,  \* codec: the line given to the first operation
    first,          \* codec: what the first operation returned
    second,         \* codec: what the opposite operation returned on its output
    file_path,      \* run: the suffix of the input path
    input_lines,    \* run: the lines load_hmmm_file read
    index,          \* run: the 0-based index of the line the loop is at
    line_counter,   \* run: line_counter of compile_hmmm
    compiled_text,  \* run: the Vec<Instruction> built so far
    status,         \* run: "running", "exited", "panicked", "done"; "idle"
    report,         \* run: the error report raise_compile_error printed
    output_file,    \* run: the suffix of the --output path, "" when not given
    written         \* run: the file fs::write wrote, NotWritten when none

codec_vars == <<pc, direction, line_contents, first, second>>
run_vars == <<file_path, input_lines, index, line_counter, compiled_text,
              status, report, output_file, written>>
vars == <<pc, direction, line_contents, first, second, file_path, input_lines,
          index, line_counter, compiled_text, status, report, output_file,
          written>>

NoResult ==
    [tag |-> "None", err |-> "", instruction_type |-> 0,
     text_contents |-> <<>>, binary_contents |-> <<>>]

NotWritten == [some |-> FALSE, lines |-> <<>>]
Written(file_lines) == [some |-> TRUE, lines |-> file_lines]

----------------------------------------------------------------------------
(* Inputs of the codec                                                     *)

Reg(n) == <<CH("r"), NUM(n)>>
Num(v) == <<NUM(v)>>
Junk == <<CH("x")>>

Nibble(v) == format_b(v, 4, 8)
Word16(a, b, c, d) == join(<<Nibble(a), Nibble(b), Nibble(c), Nibble(d)>>, <<SP>>)

\* values of a 16-bit number operand
ImmValues == {0, 5, 10, 255, 256, 4095, 4096, 65535, -1}

\* sampled legal values of the operand kinds, the range ends among them
RegisterSamples == {0, 1, 2, 7, 8, 15}
SignedSamples == {I8Min, I8Min + 1, -1, 0, 1, 5, I8Max}
UnsignedSamples == {0, 1, 5, I8Max, I8Max + 1, U8Max}

\* the operand texts within the legal range of an operand kind
LegalTokens(kind) ==
    CASE kind = "r" -> {Reg(n) : n \in RegisterSamples}
      [] kind = "s" -> {Num(v) : v \in SignedSamples}
      [] kind = "u" -> {Num(v) : v \in UnsignedSamples}
      [] kind = "n" -> {Num(v) : v \in ImmValues}
      [] OTHER -> {Junk}

RECURSIVE Assignments(_)
Assignments(kinds) ==
    IF kinds = <<>> THEN {<<>>}
    ELSE {<<t>> \o rest : t \in LegalTokens(Head(kinds)),
                          rest \in Assignments(Tail(kinds))}

TextLine(name, tokens) == join(<<(<<W(name)>>)>> \o tokens, <<SP>>)

NonSkip(arguments) == SelectSeq(arguments, LAMBDA c : c # "z")

\* table entry i with every legal operand assignment, one token per operand
\* that is not a skip slot
LegalTextLines(i) ==
    {TextLine(INSTRUCTION_LOOKUP[i].names[1], a) :
        a \in Assignments(NonSkip(INSTRUCTION_LOOKUP[i].arguments))}

\* the entries with a skip slot
SkipEntries ==
    {i \in 1..Len(INSTRUCTION_LOOKUP) :
        \E k \in 1..Len(INSTRUCTION_LOOKUP[i].arguments) :
            INSTRUCTION_LOOKUP[i].arguments[k] = "z"}

\* an entry with a skip slot, with one token per character of arguments
SkipTextLines(i) ==
    {TextLine(INSTRUCTION_LOOKUP[i].names[1], a) :
        a \in Assignments(INSTRUCTION_LOOKUP[i].arguments)}

\* register numbers past the legal range
BigRegisters == {16, 17, 127, 128, 129, 255, 256}

\* operands outside the legal ranges, of the wrong shape or in the wrong number
OtherTextLines ==
    {TextLine("read", <<Reg(n)>>) : n \in (0..15) \cup BigRegisters \cup {-1}}
    \cup {TextLine("copy", <<Reg(1), Reg(n)>>) : n \in (0..15) \cup BigRegisters}
    \cup {TextLine("add", <<Reg(1), Reg(2), Reg(n)>>) : n \in BigRegisters}
    \cup {TextLine("setn", <<Reg(n), Num(5)>>) : n \in BigRegisters}
    \cup {TextLine("setn", <<Reg(1), Num(v)>>) : v \in {I8Min - 1, I8Max + 1}}
    \cup {TextLine("loadn", <<Reg(1), Num(v)>>) : v \in {-1, U8Max + 1}}
    \cup {TextLine("read", <<t>>) : t \in {Junk, Num(5), <<>>, <<CH("R"), NUM(3)>>}}
    \cup {TextLine("data", <<Junk>>), TextLine("halt", <<Reg(1)>>),
          TextLine("add", <<Reg(1), Reg(2)>>), TextLine("bogus", <<>>),
          TextLine("setn", <<Reg(1), Junk>>), TextLine("loadn", <<Reg(1), Junk>>),
          <<>>}

\* 16-bit words as four nibbles: every first and last nibble with sampled
\* middle nibbles, and every word whose first nibble is 0110 (nop, copy, add)
NibbleSamples == {0, 1, 2, 7, 8, 15}
Words ==
    {Word16(a, b, c, d) : a \in 0..15, b \in NibbleSamples,
                          c \in NibbleSamples, d \in 0..15}
Words0110 == {Word16(6, b, c, d) : b \in 0..15, c \in 0..15, d \in 0..15}

\* lines that are not four nibbles
OtherBinaryLines ==
    {join(<<Nibble(6), Nibble(1), Nibble(2)>>, <<SP>>),
     join(<<Nibble(1), Nibble(1)>>, <<SP>>),
     <<>>,
     Word16(0, 0, 0, 0) \o <<SP>> \o Nibble(1),
     join(<<Nibble(1), <<BIT(0), BIT(0), BIT(2), BIT(0)>>, Nibble(0), Nibble(0)>>, <<SP>>),
     join(<<Nibble(0), <<BIT(1)>>, Nibble(0), Nibble(1)>>, <<SP>>)}

----------------------------------------------------------------------------
(* The codec: one operation on an input line, then the opposite operation  *)
(* on what the program writes for its result                               *)

RunIdle ==
    /\ file_path = ""
    /\ input_lines = <<>>
    /\ index = 0
    /\ line_counter = 0
    /\ compiled_text = <<>>
    /\ status = "idle"
    /\ report = NoReport
    /\ output_file = ""
    /\ written = NotWritten

Init ==
    /\ pc = "start"
    /\ \/ /\ direction = "text"
          /\ \/ \E i \in 1..Len(INSTRUCTION_LOOKUP) :
                    line_contents \in LegalTextLines(i)
             \/ \E i \in SkipEntries : line_contents \in SkipTextLines(i)
             \/ line_contents \in OtherTextLines
       \/ /\ direction = "binary"
          /\ \/ line_contents \in Words
             \/ line_contents \in Words0110
             \/ line_contents \in OtherBinaryLines
    /\ first = NoResult
    /\ second = NoResult
    /\ RunIdle

\* what the loop body of compile_hmmm got from new_from_text
result_of(outcome) ==
    CASE outcome.kind = "push" -> outcome.instr
      [] outcome.kind = "raise" -> Err(outcome.err)
      [] OTHER -> Panic

\* Instruction::new_from_text on the given line
EncodeText ==
    /\ pc = "start"
    /\ direction = "text"
    /\ first' = new_from_text(line_contents)
    /\ pc' = "first"
    /\ UNCHANGED <<direction, line_contents, second>>
    /\ UNCHANGED run_vars

\* Instruction::new_from_binary on the given line
DecodeBinary ==
    /\ pc = "start"
    /\ direction = "binary"
    /\ first' = new_from_binary(line_contents)
    /\ pc' = "first"
    /\ UNCHANGED <<direction, line_contents, second>>
    /\ UNCHANGED run_vars

\* the encoded instruction, written as write_compiled_hmmm writes it, read
\* back by Instruction::new_from_binary
DecodeEncoded ==
    /\ pc = "first"
    /\ direction = "text"
    /\ first.tag = "Ok"
    /\ second' = new_from_binary(write_compiled_hmmm(<<first>>)[1])
    /\ pc' = "second"
    /\ UNCHANGED <<direction, line_contents, first>>
    /\ UNCHANGED run_vars

\* the decoded instruction, written as write_uncompiled_hmmm writes it
\* (label, canonical mnemonic, operand text), compiled again by the loop
\* body of compile_hmmm, which cleans the line for new_from_text
EncodeDecoded ==
    /\ pc = "first"
    /\ direction = "binary"
    /\ first.tag = "Ok"
    /\ second' = result_of(compile_line(write_uncompiled_hmmm(<<first>>)[1], 0))
    /\ pc' = "second"
    /\ UNCHANGED <<direction, line_contents, first>>
    /\ UNCHANGED run_vars

Next == EncodeText \/ DecodeBinary \/ DecodeEncoded \/ EncodeDecoded

Spec == Init /\ [][Next]_vars

----------------------------------------------------------------------------
(* Properties of the codec                                                 *)

\* the operand tokens of an operand text, whichever separator joins them
operands(text) == SelectSeq(split(text, {COMMA, SP}), LAMBDA p : p # <<>>)

\* the operand text tok lies within the legal range of its operand kind
LegalOperand(kind, tok) ==
    CASE kind = "r" ->
            Len(tok) = 2 /\ tok[1] = CH("r") /\ tok[2].t = "num"
            /\ tok[2].n \in 0..15
      [] kind = "s" ->
            Len(tok) = 1 /\ tok[1].t = "num" /\ tok[1].n \in I8Min..I8Max
      [] kind = "u" ->
            Len(tok) = 1 /\ tok[1].t = "num" /\ tok[1].n \in 0..U8Max
      [] kind = "n" ->
            Len(tok) = 1 /\ tok[1].t = "num" /\ tok[1].n \in 0..(Pow2(16) - 1)
      [] OTHER -> FALSE

\* tokens are one legal operand text for each operand kind of kinds
LegalOperands(kinds, tokens) ==
    /\ Len(tokens) = Len(kinds)
    /\ \A k \in 1..Len(kinds) : LegalOperand(kinds[k], tokens[k])

\* contents_list is a mnemonic of entry ty with a legal operand assignment:
\* one token for each operand that is not a skip slot
LegalFor(ty, contents_list) ==
    ty # 0 /\ LegalOperands(NonSkip(arguments_of[ty]), Tail(contents_list))

\* the text line is a mnemonic of the table with a legal operand assignment
LegalText(contents_list) ==
    LegalFor(lookup_by_name(1, contents_list[1]), contents_list)

\* the line is four nibbles separated by single spaces
IsWord(line_split) ==
    /\ Len(line_split) = 4
    /\ \A k \in 1..4 :
          /\ Len(line_split[k]) = 4
          /\ \A b \in 1..4 : line_split[k][b] \in {BIT(0), BIT(1)}

\* entry i matches the word on every significant position of its mask
Agrees(i, line_split) ==
    \A k \in 1..4 : masks[i][k] => matchers[i][k] = line_split[k]

\* the first entry in declaration order that matches the word, 0 when none
FirstAgreeing(line_split) ==
    IF \E i \in 1..Len(INSTRUCTION_LOOKUP) : Agrees(i, line_split)
    THEN CHOOSE i \in 1..Len(INSTRUCTION_LOOKUP) :
             Agrees(i, line_split) /\ \A j \in 1..(i - 1) : ~Agrees(j, line_split)
    ELSE 0

\* C1: text round-trip.  For every table entry and every operand assignment
\* within the legal ranges, new_from_text succeeds with that entry, and
\* new_from_binary on the four nibbles it produced succeeds and yields the
\* same entry and the same operand text.
C1_TextRoundTrip ==
    (direction = "text" /\ pc # "start"
        /\ LegalText(split(line_contents, {SP}))) =>
        /\ first.tag = "Ok"
        /\ first.instruction_type =
               lookup_by_name(1, split(line_contents, {SP})[1])
        /\ pc = "second" =>
              /\ second.tag = "Ok"
              /\ second.instruction_type = first.instruction_type
              /\ operands(second.text_contents) = operands(first.text_contents)

\* C2: binary round-trip.  For every 16-bit word given as four nibbles,
\* new_from_binary succeeds, and encoding the decoded canonical mnemonic
\* and operand text again succeeds and yields the original four nibbles.
C2_BinaryRoundTrip ==
    (direction = "binary" /\ pc # "start"
        /\ IsWord(split(line_contents, {SP}))) =>
        /\ first.tag = "Ok"
        /\ pc = "second" =>
              /\ second.tag = "Ok"
              /\ second.binary_contents = split(line_contents, {SP})

\* the binary form of an Ok result agrees with the match pattern of its own
\* instruction type on every significant nibble
BinaryAgrees(result) ==
    result.tag = "Ok" =>
        /\ Len(result.binary_contents) >= 4
        /\ Agrees(result.instruction_type, result.binary_contents)

\* C3: every Instruction that new_from_text or new_from_binary returns as Ok
\* has a binary form that agrees with the match pattern of its instruction
\* type on every nibble the mask marks significant.
C3_BinaryMatchesPattern == BinaryAgrees(first) /\ BinaryAgrees(second)

\* the line is a one-register mnemonic followed by rN with N >= 0
OneRegisterLine(line) ==
    /\ Len(line) = 4
    /\ line[2] = SP /\ line[3] = CH("r")
    /\ line[4].t = "num" /\ line[4].n >= 0
    /\ lookup_by_name(1, <<line[1]>>) # 0
    /\ arguments_of[lookup_by_name(1, <<line[1]>>)] = <<"r">>

\* C4: encoding a register operand rN succeeds exactly when 0 <= N <= 15 and
\* then produces the nibble that is N in 4-bit binary; for every N >= 16 the
\* encode returns the error InvalidRegister.
C4_RegisterRange ==
    (direction = "text" /\ pc # "start" /\ OneRegisterLine(line_contents)) =>
        IF line_contents[4].n <= 15
        THEN /\ first.tag = "Ok"
             /\ first.binary_contents[2] = Nibble(line_contents[4].n)
        ELSE first = Err("InvalidRegister")

\* a word whose first nibble is 0110, shared by nop, copy and add
Is0110(line_split) == IsWord(line_split) /\ line_split[1] = Nibble(6)

\* the mnemonic the nop/copy/add triple gives a word 0110 x y z
TripleName(line_split) ==
    IF line_split[4] # ZeroNibble THEN "add"
    ELSE IF line_split[2] = ZeroNibble /\ line_split[3] = ZeroNibble THEN "nop"
    ELSE "copy"

\* the decoded entry is the first one that agrees with the word
FirstMatchWins(line_split) ==
    /\ first.tag # "Err"
    /\ first.tag = "Ok" => first.instruction_type = FirstAgreeing(line_split)
    /\ Is0110(line_split) =>
          /\ first.tag = "Ok"
          /\ names_of[first.instruction_type][1] = TripleName(line_split)

\* C5: decode lookup is first-match-wins in table declaration order: the
\* entry new_from_binary selects is the first whose match pattern agrees
\* with the word on every significant position; 0110 0000 0000 0000 decodes
\* as nop, every other 0110 x y 0000 as copy, every 0110 x y z with z # 0000
\* as add.
C5_FirstMatchWins ==
    (direction = "binary" /\ pc # "start"
        /\ IsWord(split(line_contents, {SP}))) =>
        FirstMatchWins(split(line_contents, {SP}))

\* a word 0110 x y 0000 that copy and add both match is decoded as copy
C5_Witness ==
    /\ direction = "binary" /\ pc = "first"
    /\ line_contents = Word16(6, 1, 2, 0)
    /\ Agrees(14, split(line_contents, {SP}))
    /\ Agrees(15, split(line_contents, {SP}))
    /\ first.tag = "Ok" /\ first.instruction_type = 14

\* entry j matches a narrower set of words than entry i: all that i requires
\* j requires too, and j requires more
Narrower(j, i) ==
    /\ \A k \in 1..4 : masks[i][k] => (masks[j][k] /\ matchers[j][k] = matchers[i][k])
    /\ \E k \in 1..4 : masks[j][k] /\ ~masks[i][k]

AllNibbles == {Nibble(v) : v \in 0..15}

\* the 16-bit words entry j matches
WordsMatching(j) ==
    {<<a, b, c, d>> :
        a \in (IF masks[j][1] THEN {matchers[j][1]} ELSE AllNibbles),
        b \in (IF masks[j][2] THEN {matchers[j][2]} ELSE AllNibbles),
        c \in (IF masks[j][3] THEN {matchers[j][3]} ELSE AllNibbles),
        d \in (IF masks[j][4] THEN {matchers[j][4]} ELSE AllNibbles)}

\* entry j is the result of the decode lookup for at least one word
Decodable(j) == \E w \in WordsMatching(j) : lookup_by_pattern(1, w) = j

\* the decoded entry is not broader than a later entry that matches the word
DecodedMostSpecific(line_split) ==
    first.tag = "Ok" =>
        \A j \in (first.instruction_type + 1)..Len(INSTRUCTION_LOOKUP) :
            Agrees(j, line_split) => ~Narrower(j, first.instruction_type)

\* C6: the declaration order disambiguates all aliasing entries: whenever
\* a word matches two entries the more specific one is declared first, so
\* the decode of a word never selects the broader of two matching entries,
\* and every table entry is the result of the decode lookup for some word.
C6_OrderDisambiguates ==
    /\ (direction = "binary" /\ pc # "start"
           /\ IsWord(split(line_contents, {SP}))) =>
           DecodedMostSpecific(split(line_contents, {SP}))
    /\ pc # "start" => \A j \in 1..Len(INSTRUCTION_LOOKUP) : Decodable(j)

\* the nibble width of an operand signature
RECURSIVE SignatureWidth(_)
SignatureWidth(arguments) ==
    IF arguments = <<>> THEN 0
    ELSE (CASE Head(arguments) \in {"r", "z"} -> 1
            [] Head(arguments) \in {"s", "u"} -> 2
            [] OTHER -> 3)
         + SignatureWidth(Tail(arguments))

\* the number of don't-care nibbles of the mask of entry i
DontCare(i) == Cardinality({k \in 1..4 : ~masks[i][k]})

\* C7: for every entry of the table the codec operations look their
\* instruction up in, the number of don't-care nibbles of its mask equals
\* the nibble width of its operand signature.
C7_MaskWidth ==
    pc # "start" =>
        \A i \in 1..Len(INSTRUCTION_LOOKUP) :
            DontCare(i) = SignatureWidth(arguments_of[i])

\* C8: the codec operations are total: new_from_text and new_from_binary
\* return Ok or Err with one CompileErr kind on every line; they never panic.
C8_Total ==
    /\ pc # "start" => (first.tag = "Ok" \/ (first.tag = "Err" /\ first.err \in CompileErr))
    /\ (pc = "second" /\ direction = "text") =>
           (second.tag = "Ok" \/ (second.tag = "Err" /\ second.err \in CompileErr))

\* the concatenation of the strings of a sequence
RECURSIVE Flatten(_)
Flatten(strings) ==
    IF strings = <<>> THEN <<>> ELSE Head(strings) \o Flatten(Tail(strings))

\* the don't-care nibbles of the binary form of an instruction of entry ty,
\* in slot order
DontCareNibbles(ty, binary_contents) ==
    SelectSeq([k \in 1..4 |-> IF masks[ty][k] THEN <<>> ELSE binary_contents[k]],
              LAMBDA s : s # <<>>)

\* the binary strings of the operand tokens, one for each non-skip operand
OperandBits(kinds, tokens) ==
    [k \in 1..Len(tokens) |-> operand_binary(kinds[k], tokens[k]).s]

\* the instruction is encoded from the non-skip operand tokens alone: the
\* significant nibbles, the skip slot among them, are those of the match
\* pattern (0000 for the skip slot) and the operands fill the don't-care slots
SkipEncoded(ty, tokens) ==
    /\ first.tag = "Ok"
    /\ first.instruction_type = ty
    /\ Len(first.binary_contents) = 4
    /\ Agrees(ty, first.binary_contents)
    /\ Flatten(DontCareNibbles(ty, first.binary_contents))
           = Flatten(OperandBits(NonSkip(arguments_of[ty]), tokens))

\* the line is a mnemonic of an entry with a skip slot, followed by one legal
\* token for each operand that is not a skip slot
SkipLine(contents_list) ==
    /\ lookup_by_name(1, contents_list[1]) \in SkipEntries
    /\ LegalText(contents_list)

\* C11: a skip slot consumes no source token when encoding.  An instruction
\* whose signature has a skip slot is encoded from as many operand tokens as
\* it has non-skip operands (neg: two registers, jumpn: one unsigned), the
\* skip slot is emitted as 0000 and the operands land in the don't-care
\* slots of the mask.
C11_SkipConsumesNoToken ==
    (direction = "text" /\ pc # "start"
        /\ SkipLine(split(line_contents, {SP}))) =>
        SkipEncoded(lookup_by_name(1, split(line_contents, {SP})[1]),
                    Tail(split(line_contents, {SP})))

\* the three nibbles of the low 12 bits of v, most significant nibble first
Low12(v) ==
    LET bits == format_b(v % Pow2(12), 12, 32)
    IN  <<SubSeq(bits, 1, 4), SubSeq(bits, 5, 8), SubSeq(bits, 9, 12)>>

\* the line is the data mnemonic followed by one decimal numeral in 0..4095
DataLine(line) ==
    /\ Len(line) = 3
    /\ line[1] = W("data") /\ line[2] = SP
    /\ line[3].t = "num" /\ line[3].n \in 0..(Pow2(12) - 1)

\* three consecutive nibbles of the word are the low 12 bits of v
HoldsLow12(binary_contents, v) ==
    /\ Len(binary_contents) = 4
    /\ \/ SubSeq(binary_contents, 1, 3) = Low12(v)
       \/ SubSeq(binary_contents, 2, 4) = Low12(v)

\* C13: encoding the 16-bit number operand of data writes three nibbles that
\* are the low 12 bits of the parsed value, most significant nibble first:
\* for every value v in 0..4095 the operand nibbles represent v itself.
C13_Imm16Low12 ==
    (direction = "text" /\ pc # "start" /\ DataLine(line_contents)) =>
        /\ first.tag = "Ok"
        /\ HoldsLow12(first.binary_contents, line_contents[3].n)

----------------------------------------------------------------------------
(* A run of main on an input file                                          *)

\* the most lines an input file of the model has
MaxLines == 3

Label(k, rest) == <<NUM(k), SP>> \o rest

\* lines of an assembly source file
SourceLines ==
    {Label(0, <<W("halt")>>),
     Label(1, <<W("setn"), SP, CH("r"), NUM(1), COMMA, SP, NUM(5), SP, HASH,
                SP, CH("x")>>),
     Label(2, <<W("halt")>>),
     Label(0, <<W("read"), SP, CH("r"), NUM(256)>>),
     Label(1, <<W("read"), SP, CH("r"), NUM(16)>>),
     <<HASH, SP, CH("x")>>,
     <<>>,
     <<NUM(200)>>,
     <<NUM(5)>>,
     <<SP, SP, SP>>,
     <<CH("x"), SP, W("halt")>>}

\* lines of a compiled file
CompiledLines ==
    {Word16(0, 0, 0, 0), Word16(1, 1, 0, 5), Word16(4, 1, 2, 1),
     Word16(1, 0, 8, 0), join(<<Nibble(6), Nibble(1), Nibble(2)>>, <<SP>>)}

\* the suffixes of the --output path; "" when the option is not given
OutputPaths == {"", UNCOMPILED, COMPILED, ".txt"}

CodecIdle ==
    /\ pc = "idle"
    /\ direction = ""
    /\ line_contents = <<>>
    /\ first = NoResult
    /\ second = NoResult

RunInit ==
    /\ CodecIdle
    /\ \/ /\ file_path = UNCOMPILED
          /\ \E k \in 0..MaxLines : input_lines \in [1..k -> SourceLines]
       \/ /\ file_path = COMPILED
          /\ \E k \in 0..MaxLines : input_lines \in [1..k -> CompiledLines]
       \/ /\ file_path = ".txt"
          /\ input_lines = <<>>
    /\ index = 0
    /\ line_counter = 0
    /\ compiled_text = <<>>
    /\ status = "running"
    /\ report = NoReport
    /\ output_file = ""
    /\ written = NotWritten

\* what one pass of the loop of compile_hmmm does to the run; `raised` is
\* what raise_compile_error does with the error of the pass, and the loop
\* goes on to the next line whenever the process is still running
LoopPass(outcome, raised) ==
    IF outcome.kind = "skip"
    THEN /\ index' = index + 1
         /\ UNCHANGED <<line_counter, compiled_text, status, report>>
    ELSE IF outcome.kind = "push"
    THEN /\ compiled_text' = Append(compiled_text, outcome.instr)
         /\ line_counter' = line_counter + 1
         /\ index' = index + 1
         /\ UNCHANGED <<status, report>>
    ELSE IF outcome.kind = "raise"
    THEN /\ status' = raised.status
         /\ report' = raised.report
         /\ index' = IF raised.status = "running" THEN index + 1 ELSE index
         /\ UNCHANGED <<line_counter, compiled_text>>
    ELSE /\ status' = "panicked"
         /\ UNCHANGED <<index, line_counter, compiled_text, report>>

CompilePass(outcome) ==
    LoopPass(outcome,
             raise_compile_error(index, outcome.err, input_lines[index + 1],
                                 outcome.line_parts))

\* one pass of the loop of compile_hmmm
CompileLine ==
    /\ status = "running"
    /\ file_path = UNCOMPILED
    /\ index < Len(input_lines)
    /\ CompilePass(compile_line(input_lines[index + 1], line_counter))
    /\ UNCHANGED <<file_path, input_lines, output_file, written>>
    /\ UNCHANGED codec_vars

\* the instruction is pushed, or the error is a panic!
ReadPass(outcome) ==
    IF outcome.kind = "push"
    THEN /\ compiled_text' = Append(compiled_text, outcome.instr)
         /\ index' = index + 1
         /\ UNCHANGED <<line_counter, status, report>>
    ELSE /\ status' = "panicked"
         /\ UNCHANGED <<index, line_counter, compiled_text, report>>

\* one pass of the loop of read_compiled_hmmm
ReadLine ==
    /\ status = "running"
    /\ file_path = COMPILED
    /\ index < Len(input_lines)
    /\ ReadPass(read_line(input_lines[index + 1]))
    /\ UNCHANGED <<file_path, input_lines, output_file, written>>
    /\ UNCHANGED codec_vars

\* main with an input path that ends neither in .hmmm nor in .hb
UnknownFiletype ==
    /\ status = "running"
    /\ file_path \notin {UNCOMPILED, COMPILED}
    /\ status' = "panicked"
    /\ UNCHANGED <<file_path, input_lines, index, line_counter, compiled_text,
                   report, output_file, written>>
    /\ UNCHANGED codec_vars

\* main after the loop returned: the output file is written when --output
\* names a .hmmm or .hb path
WriteOutput ==
    /\ status = "running"
    /\ file_path \in {UNCOMPILED, COMPILED}
    /\ index = Len(input_lines)
    /\ \E out \in OutputPaths :
          /\ output_file' = out
          /\ written' =
                IF out = UNCOMPILED
                THEN Written(write_uncompiled_hmmm(compiled_text))
                ELSE IF out = COMPILED
                THEN Written(write_compiled_hmmm(compiled_text))
                ELSE NotWritten
    /\ status' = "done"
    /\ UNCHANGED <<file_path, input_lines, index, line_counter, compiled_text,
                   report>>
    /\ UNCHANGED codec_vars

RunNext == CompileLine \/ ReadLine \/ UnknownFiletype \/ WriteOutput

RunSpec == RunInit /\ [][RunNext]_vars

----------------------------------------------------------------------------
(* Properties of a run                                                     *)

\* the run was stopped by exit(1) or by a panic
Stopped == status \in {"exited", "panicked"}

\* the number of lines of the input the loop has to push an instruction for
Processed ==
    IF file_path = UNCOMPILED
    THEN Cardinality({k \in 1..Len(input_lines) : is_processed(input_lines[k])})
    ELSE Len(input_lines)

\* a stopped run has written nothing, and a written file comes from a run
\* that went through every line and pushed every line it processed
NoPartialOutput ==
    /\ Stopped => written = NotWritten
    /\ report # NoReport => Stopped
    /\ written.some =>
          /\ status = "done"
          /\ report = NoReport
          /\ index = Len(input_lines)
          /\ Len(compiled_text) = Processed

\* C9: fail-fast with no partial artifacts.  The first line that fails
\* stops the run: no step follows it, so no later line is processed and no
\* output file is written; an output file is written only after every line
\* of the input has been processed successfully.
C9_FailFast == []NoPartialOutput /\ [][~Stopped]_vars

\* a run that compiled a line, stopped at a later one with lines left, and
\* wrote nothing
C9_Witness ==
    /\ status = "exited"
    /\ compiled_text # <<>>
    /\ index + 1 < Len(input_lines)
    /\ written = NotWritten

\* the label of a source line: its first field parsed as an integer
LabelOf(line) == parse(trim(split(line, {COMMA, SP, TAB})[1]), I32Min, I32Max)

\* what the run reports when it stops at a line with the given label
LabelReported(label) ==
    IF ~label.ok
    THEN /\ status = "exited"
         /\ report = [line_num |-> index, error |-> "LineNumberNotPresent"]
    ELSE label.v # line_counter =>
         /\ status = "exited"
         /\ report = [line_num |-> index, error |-> "InvalidLineNumber"]

\* C10: line-number validation in compile_hmmm.  The line counter equals the
\* number of instructions compiled so far; a run that stops at a line whose
\* integer label differs from the counter has reported InvalidLineNumber
\* with the 0-based index of the line, and a run that stops at a line whose
\* first field is not an integer has reported LineNumberNotPresent.
C10_LineNumbers ==
    file_path = UNCOMPILED =>
        /\ line_counter = Len(compiled_text)
        /\ Stopped => LabelReported(LabelOf(input_lines[index + 1]))

\* the line is empty, only whitespace, or its trimmed content begins with '#'
ShouldSkip(line) == trim(line) = <<>> \/ starts_with(trim(line), "#")

\* the lines among the first n of the input that are not to be skipped
NotSkippedUpTo(n) == {k \in 1..n : ~ShouldSkip(input_lines[k])}

\* C12: in compile_hmmm a line that is empty, only whitespace or a comment
\* is skipped: it raises no error and produces no instruction; every other
\* line, however short, is not skipped.  So a run never stops at such a
\* line, and while the run goes on the compiled program holds one
\* instruction for every other line the loop has passed.
C12_SkippedLines ==
    file_path = UNCOMPILED =>
        /\ Stopped => ~ShouldSkip(input_lines[index + 1])
        /\ ~Stopped => Len(compiled_text) = Cardinality(NotSkippedUpTo(index))

====
